---- MODULE Spec2Model ----
(***************************************************************************)
(* github-digest/main.py: the daily digest run.  main computes the cutoff, *)
(* fetch_recent_items pages through two GraphQL searches and filters the   *)
(* items, fetch_recent_commits searches commits, looks up their associated *)
(* pull requests and filters them, main groups both lists by repository,   *)
(* renders, prints and mails the digest.                                   *)
(*                                                                         *)
(* Instants are seconds since 00:00 UTC of day 0; a date is a day number.  *)
(* An Optional value is None (the empty tuple) or Some(v) (a 1-tuple).     *)
(* A str that the program slices or escapes is a tuple of 1-character      *)
(* strings; a str that it only compares or prints is a TLA+ string.        *)
(***************************************************************************)
EXTENDS Integers, Sequences, FiniteSets, TLC

VARIABLES
    pc,             \* where the run is
    today,          \* datetime.date.today()
    no_email,       \* args.no_email
    after,          \* main: the cutoff instant
    file,           \* fetch_recent_items: index of the template being paged
    cursor,         \* fetch_recent_items: cursor of the next request
    requests,       \* fetch_recent_items: the GraphQL search requests sent
    pages,          \* fetch_recent_items: the decoded pages, in fetch order
    fetched,        \* fetch_recent_items: the local list `items`
    items,          \* main: what fetch_recent_items returned
    commit_search,  \* fetch_recent_commits: commit_search.items
    lookups,        \* fetch_recent_commits: the node_ids batches sent
    nodes,          \* fetch_recent_commits: the associated-PR counts decoded
    commits,        \* main: what fetch_recent_commits returned
    groups,         \* main: repository -> list of Item | Commit
    rendered,       \* which renderers main has called
    plain,          \* main: format_plain(groups), a list of lines
    html,           \* main: format_html(groups), a list of fragments
    stdout,         \* what the run has printed
    emails,         \* the messages send_email has delivered
    failed,         \* the call that raised, or "none"
    probe,          \* filter harness: the record under test
    probe_count,    \* filter harness: its associated-PR count (commits)
    probe_out       \* filter harness: what the filter returned

vars == <<pc, today, no_email, after, file, cursor, requests, pages, fetched,
          items, commit_search, lookups, nodes, commits, groups, rendered,
          plain, html, stdout, emails, failed, probe, probe_count, probe_out>>

----------------------------------------------------------------------------
(* Generic helpers *)

None == <<>>
Some(v) == <<v>>

Range(s) == {s[i] : i \in 1..Len(s)}

Min(a, b) == IF a <= b THEN a ELSE b

RECURSIVE Concat(_)
Concat(ss) == IF ss = <<>> THEN <<>> ELSE Head(ss) \o Concat(Tail(ss))

----------------------------------------------------------------------------
(* Program constants *)

IGNORE_AUTHORS ==
    {"jcrist", "dependabot", "renovate", "phillip-ground", "ibis-squawk-bot"}

IGNORE_REPOS == {"jcrist/msgspec", "conda-forge/msgspec-feedstock", "NixOS/nixpkgs"}

FILES == <<"issues.graphql", "discussions.graphql">>

SecondsPerDay == 86400
SecondsPerHour == 3600
CutoffHour == 14

\* Cutoff with the local hour of the comment ("9 central") in place of 14 UTC.
CutoffLocalHour(day) == (day - 1) * SecondsPerDay + 9 * SecondsPerHour

\* yesterday = today - timedelta(days=1);
\* after = datetime.combine(yesterday, time(14, tzinfo=utc))
Cutoff(day) == (day - 1) * SecondsPerDay + CutoffHour * SecondsPerHour

\* after.date(): the UTC calendar date of an aware UTC instant
DateOf(t) == t \div SecondsPerDay

----------------------------------------------------------------------------
(* The filters *)

\* ItemKept that looks at every review instead of the first one only.
ItemKeptAnyReview(item, cutoff) ==
    /\ item.author.login \notin IGNORE_AUTHORS
    /\ item.author.type # "Bot"
    /\ item.repo.name_with_owner \notin IGNORE_REPOS
    /\ \/ item.created_at >= cutoff
       \/ (item.last_edited_at # None /\ item.last_edited_at[1] >= cutoff)
       \/ (item.closed_at # None /\ item.closed_at[1] >= cutoff)
       \/ (Len(item.comments.items) > 0
              /\ item.comments.items[1].updated_at >= cutoff)
       \/ (\E i \in 1..Len(item.reviews.items) :
              item.reviews.items[i].updated_at >= cutoff)

\* One element of the list comprehension of fetch_recent_items.  Python's
\* `xs and xs[0].updated_at >= after` is false on an empty list and reads
\* only the first element otherwise.
ItemKept(item, cutoff) ==
    /\ item.author.login \notin IGNORE_AUTHORS
    /\ item.author.type # "Bot"
    /\ item.repo.name_with_owner \notin IGNORE_REPOS
    /\ \/ item.created_at >= cutoff
       \/ (item.last_edited_at # None /\ item.last_edited_at[1] >= cutoff)
       \/ (item.closed_at # None /\ item.closed_at[1] >= cutoff)
       \/ (Len(item.comments.items) > 0
              /\ item.comments.items[1].updated_at >= cutoff)
       \/ (Len(item.reviews.items) > 0
              /\ item.reviews.items[1].updated_at >= cutoff)

FilterItems(list, cutoff) == SelectSeq(list, LAMBDA item : ItemKept(item, cutoff))

\* ZipRetain that drops a commit only when its count is exactly one.
RECURSIVE ZipRetainNotOne(_, _)
ZipRetainNotOne(cs, ns) ==
    IF cs = <<>> \/ ns = <<>> THEN <<>>
    ELSE (IF Head(ns) # 1 THEN <<Head(cs)>> ELSE <<>>)
             \o ZipRetainNotOne(Tail(cs), Tail(ns))

\* ZipRetain that keeps the commits left without a node (a lookup by index
\* that treats a missing node as "no pull request").
RECURSIVE ZipRetainKeepsUnpaired(_, _)
ZipRetainKeepsUnpaired(cs, ns) ==
    IF cs = <<>> THEN <<>>
    ELSE IF ns = <<>> THEN cs
    ELSE (IF Head(ns) = 0 THEN <<Head(cs)>> ELSE <<>>)
             \o ZipRetainKeepsUnpaired(Tail(cs), Tail(ns))

\* for commit, node in zip(commit_search.items, nodes):
\*     if node.associated_pull_requests.total_count == 0: commits.append(commit)
RECURSIVE ZipRetain(_, _)
ZipRetain(cs, ns) ==
    IF cs = <<>> \/ ns = <<>> THEN <<>>
    ELSE (IF Head(ns) = 0 THEN <<Head(cs)>> ELSE <<>>)
             \o ZipRetain(Tail(cs), Tail(ns))

\* CommitKept without the author check.
CommitKeptAnyAuthor(commit, cutoff) ==
    /\ commit.info.committer.date >= cutoff
    /\ commit.repo.full_name \notin IGNORE_REPOS

\* One element of the list comprehension of fetch_recent_commits.
CommitKept(commit, cutoff) ==
    /\ commit.info.committer.date >= cutoff
    /\ commit.info.author.name \notin IGNORE_AUTHORS
    /\ commit.repo.full_name \notin IGNORE_REPOS

FilterCommits(list, cutoff) ==
    SelectSeq(list, LAMBDA commit : CommitKept(commit, cutoff))

----------------------------------------------------------------------------
(* Grouping and rendering *)

\* A dict is the list of its (key, value) pairs in insertion order.
Keys(g) == [i \in 1..Len(g) |-> g[i].repo]

\* groups[key].append(x) on a defaultdict(list)
GroupAppend(g, key, x) ==
    IF \E i \in 1..Len(g) : g[i].repo = key
    THEN [i \in 1..Len(g) |->
             IF g[i].repo = key
             THEN [repo |-> key, items |-> Append(g[i].items, x)]
             ELSE g[i]]
    ELSE Append(g, [repo |-> key, items |-> <<x>>])

RECURSIVE GroupItems(_, _)
GroupItems(g, list) ==
    IF list = <<>> THEN g
    ELSE GroupItems(GroupAppend(g, Head(list).repo.name_with_owner, Head(list)),
                    Tail(list))

RECURSIVE GroupCommits(_, _)
GroupCommits(g, list) ==
    IF list = <<>> THEN g
    ELSE GroupCommits(GroupAppend(g, Head(list).repo.full_name, Head(list)),
                      Tail(list))

\* main: the two loops that fill `groups`
Grouped(its, cms) == GroupCommits(GroupItems(<<>>, its), cms)

\* The code points of the repository names of the model, for str's `<`.
Ord(s) ==
    CASE s = "a/a" -> <<97, 47, 97>>
      [] s = "a/ab" -> <<97, 47, 97, 98>>
      [] s = "a/b" -> <<97, 47, 98>>
      [] s = "Z/a" -> <<90, 47, 97>>
      [] s = "jcrist/msgspec" ->
             <<106, 99, 114, 105, 115, 116, 47, 109, 115, 103, 115, 112, 101, 99>>
      [] s = "NixOS/nixpkgs" ->
             <<78, 105, 120, 79, 83, 47, 110, 105, 120, 112, 107, 103, 115>>

\* Python's str.__lt__: lexicographic by code point, a proper prefix first.
RECURSIVE SeqLess(_, _)
SeqLess(a, b) ==
    IF b = <<>> THEN FALSE
    ELSE IF a = <<>> THEN TRUE
    ELSE IF Head(a) # Head(b) THEN Head(a) < Head(b)
    ELSE SeqLess(Tail(a), Tail(b))

StrLess(s, t) == SeqLess(Ord(s), Ord(t))

RECURSIVE Insert(_, _)
Insert(sorted, p) ==
    IF sorted = <<>> THEN <<p>>
    ELSE IF StrLess(p.repo, Head(sorted).repo) THEN <<p>> \o sorted
    ELSE <<Head(sorted)>> \o Insert(Tail(sorted), p)

RECURSIVE InsertAll(_, _)
InsertAll(sorted, g) ==
    IF g = <<>> THEN sorted ELSE InsertAll(Insert(sorted, Head(g)), Tail(g))

\* The groups in insertion order: groups.items() without sorted().
GroupsUnsorted(g) == g

\* sorted(groups.items()): the keys of a dict are distinct, so the pairs are
\* ordered by key alone.
SortedGroups(g) == InsertAll(<<>>, g)

\* "PR" if item.type == "PullRequest" else item.type
Label(item) == IF item.type = "PullRequest" THEN "PR" ELSE item.type

\* html.escape(s), quote=True
EscapeChar(c) ==
    CASE c = "&" -> "&amp;"
      [] c = "<" -> "&lt;"
      [] c = ">" -> "&gt;"
      [] c = "\"" -> "&quot;"
      [] c = "'" -> "&#x27;"
      [] OTHER -> c

Escape(s) == [i \in 1..Len(s) |-> EscapeChar(s[i])]

LineBreaks == {"\n", "\r"}
Whitespace == {" ", "\t", "\n", "\r"}

\* message.splitlines()[0] of a non-empty message
RECURSIVE FirstLine(_)
FirstLine(s) ==
    IF s = <<>> \/ Head(s) \in LineBreaks THEN <<>>
    ELSE <<Head(s)>> \o FirstLine(Tail(s))

RECURSIVE LStrip(_)
LStrip(s) == IF s # <<>> /\ Head(s) \in Whitespace THEN LStrip(Tail(s)) ELSE s

RECURSIVE RStrip(_)
RStrip(s) ==
    IF s # <<>> /\ s[Len(s)] \in Whitespace THEN RStrip(SubSeq(s, 1, Len(s) - 1))
    ELSE s

\* CommitInfo.title
Title(info) == RStrip(LStrip(FirstLine(info.message)))

ShaLen == 8

\* item.sha[:8]
ShortSha(sha) == SubSeq(sha, 1, Min(ShaLen, Len(sha)))

IsItem(x) == x.kind = "Item"

Line(kind, repo, label, number, sha, title, url, count) ==
    [kind |-> kind, repo |-> repo, label |-> label, number |-> number,
     sha |-> sha, title |-> title, url |-> url, count |-> count]

\* format_plain: the lines of one element of a group
PlainEntry(x) ==
    IF IsItem(x)
    THEN Line("item", "", Label(x), x.number, <<>>, x.title, x.url, 0)
    ELSE Line("commit", "", "Commit", 0, ShortSha(x.sha), Title(x.info),
              x.html_url, 0)

\* format_html: the fragment of one element of a group
HtmlEntry(x) ==
    IF IsItem(x)
    THEN Line("item", "", Label(x), x.number, <<>>, Escape(x.title), x.url,
              x.comments.total_count + x.reviews.total_count)
    ELSE Line("commit", "", "Commit", 0, ShortSha(x.sha), Escape(Title(x.info)),
              x.html_url, 0)

Mark(kind, repo) == Line(kind, repo, "", 0, <<>>, <<>>, "", 0)

RECURSIVE PlainSections(_, _)
PlainSections(sections, first) ==
    IF sections = <<>> THEN <<>>
    ELSE (IF first THEN <<>> ELSE <<Mark("blank", "")>>)
         \o <<Mark("header", Head(sections).repo)>>
         \o [i \in 1..Len(Head(sections).items) |->
                PlainEntry(Head(sections).items[i])]
         \o PlainSections(Tail(sections), FALSE)

\* format_plain(groups), as the list of lines that "\n".join puts together
format_plain(g) == PlainSections(SortedGroups(g), TRUE)

RECURSIVE HtmlSections(_, _)
HtmlSections(sections, first) ==
    IF sections = <<>> THEN <<>>
    ELSE (IF first THEN <<>> ELSE <<Mark("sep", "")>>)
         \o <<Mark("header", Head(sections).repo)>>
         \o [i \in 1..Len(Head(sections).items) |->
                HtmlEntry(Head(sections).items[i])]
         \o HtmlSections(Tail(sections), FALSE)

\* format_html(groups), as the list of fragments that "".join puts together
format_html(g) ==
    <<Mark("open", "")>> \o HtmlSections(SortedGroups(g), TRUE)
        \o <<Mark("close", "")>>

----------------------------------------------------------------------------
(* The inputs of the model: dates, instants, server responses *)

Days == {1, 2}

Utc(day, h, m, s) == day * 86400 + h * 3600 + m * 60 + s

\* Around the cutoff of each day: 13:59:59 and 14:00:00 UTC of the day before.
TimeStamps ==
    UNION {{Utc(d - 1, 13, 59, 59), Utc(d - 1, 14, 0, 0)} : d \in Days}

Oldest == Utc(0, 13, 59, 59)
Newest == Utc(1, 14, 0, 0)

Comments(times, total) ==
    [items |-> [i \in 1..Len(times) |-> [updated_at |-> times[i]]],
     total_count |-> total]

MkItem(type, login, atype, repo, url, number, title, state, created, edited, closed, comments, reviews) ==
    [kind |-> "Item", type |-> type,
     author |-> [type |-> atype, login |-> login],
     url |-> url, created_at |-> created,
     last_edited_at |-> edited, closed_at |-> closed,
     repo |-> [name_with_owner |-> repo], number |-> number, title |-> title,
     state |-> state, comments |-> comments, reviews |-> reviews]

MkCommit(sha, url, node_id, repo, name, date, message) ==
    [kind |-> "Commit", sha |-> sha, html_url |-> url,
     node_id |-> node_id, repo |-> [full_name |-> repo],
     info |-> [author |-> [name |-> name], committer |-> [date |-> date],
               message |-> message]]

\* The items the search pages of the run carry.
I1 == MkItem("Issue", "alice", "User", "a/b", "https://github.com/a/b/issues/1",
             1, <<"F", "i", "x">>, "OPEN",
             Newest, None, None, Comments(<<>>, 0), Comments(<<>>, 0))
I2 == MkItem("PullRequest", "bob", "User", "a/b", "https://github.com/a/b/pull/2",
             2, <<"<", "b", ">", "&">>,
             "MERGED", Oldest, None, None,
             Comments(<<Utc(0, 14, 0, 0)>>, 3), Comments(<<>>, 0))
I3 == MkItem("Discussion", "alice", "User", "Z/a",
             "https://github.com/Z/a/discussions/5", 5, <<"Q", "?">>, None,
             Newest, None, None, Comments(<<>>, 0), Comments(<<>>, 0))
I4 == MkItem("PullRequest", "dependabot", "Bot", "a/a",
             "https://github.com/a/a/pull/7", 7, <<"B", "u", "m", "p">>,
             "OPEN", Newest, None, None, Comments(<<>>, 0), Comments(<<>>, 0))

PageBodies == {<<>>, <<I1, I4>>, <<I3, I2>>}

Cursors == {"c1", "c2"}

\* PageInfo as decoded: end_cursor is a str or None.  A page that has a next
\* one may come without a cursor, and the last page comes with one.
PageInfos ==
    [has_next_page : {TRUE}, end_cursor : {None} \cup {Some(c) : c \in Cursors}]
        \cup [has_next_page : {FALSE}, end_cursor : {Some("c2")}]

\* The commits the commit search of the run carries.
K1 == MkCommit(<<"0", "1", "2", "3", "4", "5", "6", "7", "8", "9">>,
               "https://github.com/a/b/commit/0123456789", "n1", "a/b",
               "carol", Newest, <<"F", "i", "x", " ", "\n", "\n", "w", "h", "y">>)
K2 == MkCommit(<<"a", "b", "c", "d", "e", "f", "0", "1", "2">>,
               "https://github.com/a/a/commit/abcdef012", "n2", "a/a",
               "carol", Utc(0, 14, 0, 0), <<" ", "<", "i", ">">>)
K3 == MkCommit(<<"f", "e", "d", "c", "b", "a", "9", "8", "7", "6">>,
               "https://github.com/a/ab/commit/fedcba9876", "n3", "a/ab",
               "dave", Newest, <<"D", "o", "c", "s">>)
K4 == MkCommit(<<"1", "1", "1", "1", "2", "2", "2", "2", "3">>,
               "https://github.com/a/b/commit/111122223", "n4", "a/b",
               "renovate", Newest, <<"U", "p">>)

CommitLists == {<<>>, <<K1>>, <<K1, K2>>, <<K3, K4, K1>>}

Counts == {0, 1, 2}

RECURSIVE SeqsUpTo(_, _)
SeqsUpTo(S, n) ==
    IF n = 0 THEN {<<>>}
    ELSE LET shorter == SeqsUpTo(S, n - 1)
         IN shorter \cup {Append(q, x) : q \in shorter, x \in S}

\* The lookup answers for a batch of n node ids: the right length, shorter,
\* or one longer.
NodeLists(n) == SeqsUpTo(Counts, n + 1)

\* The search requests one run may send before the server ends every query.
MaxRequests == 4

----------------------------------------------------------------------------
(* The run *)

NoProbe == [kind |-> "none"]

Init ==
    /\ pc = "fetch_items"
    /\ today \in Days
    /\ no_email \in BOOLEAN
    /\ after = Cutoff(today)
    /\ file = 1
    /\ cursor = None
    /\ requests = <<>>
    /\ pages = <<>>
    /\ fetched = <<>>
    /\ items = <<>>
    /\ commit_search = <<>>
    /\ lookups = <<>>
    /\ nodes = <<>>
    /\ commits = <<>>
    /\ groups = <<>>
    /\ rendered = <<>>
    /\ plain = <<>>
    /\ html = <<>>
    /\ stdout = <<>>
    /\ emails = <<>>
    /\ failed = "none"
    /\ probe = NoProbe
    /\ probe_count = 0
    /\ probe_out = <<>>

inputVars == <<today, no_email, after>>
itemVars == <<file, cursor, requests, pages, fetched, items>>
commitVars == <<commit_search, lookups, nodes, commits>>
reportVars == <<groups, rendered, plain, html, stdout>>
probeVars == <<probe, probe_count, probe_out>>

\* The request without its `after:` parameter, whatever the cursor.
SearchRequestNoCursor ==
    [file |-> FILES[file], search |-> DateOf(after), after |-> None]

\* query = template % params of fetch_recent_items
SearchRequest ==
    [file |-> FILES[file], search |-> DateOf(after), after |-> cursor]

\* One pass of the `while True` of fetch_recent_items: the request, the decoded
\* page, and what follows it: the next page, the next file, or the return.
FetchPage ==
    /\ pc = "fetch_items"
    /\ \E body \in PageBodies, info \in PageInfos :
          /\ info.has_next_page =>
                 Len(requests) + 2 + (Len(FILES) - file) <= MaxRequests
          /\ requests' = Append(requests, SearchRequest)
          /\ pages' = Append(pages, [page_info |-> info, items |-> body])
          /\ fetched' = fetched \o body
          /\ IF info.has_next_page
             THEN /\ cursor' = info.end_cursor
                  /\ UNCHANGED <<file, items, pc>>
             ELSE IF file < Len(FILES)
             THEN /\ file' = file + 1
                  /\ cursor' = None
                  /\ UNCHANGED <<items, pc>>
             ELSE /\ items' = FilterItems(fetched', after)
                  /\ pc' = "fetch_commits"
                  /\ UNCHANGED <<file, cursor>>
    /\ UNCHANGED <<inputVars, commitVars, reportVars, emails, failed, probeVars>>

\* raise_for_status() or msgspec.json.decode raises in fetch_recent_items.
FetchPageFails ==
    /\ pc = "fetch_items"
    /\ requests' = Append(requests, SearchRequest)
    /\ failed' = "search"
    /\ pc' = "aborted"
    /\ UNCHANGED <<inputVars, file, cursor, pages, fetched, items, commitVars,
                   reportVars, emails, probeVars>>

\* Report without the `if items or commits:` test.
ReportAlways(cms) ==
    /\ groups' = Grouped(items, cms)
    /\ plain' = format_plain(groups')
    /\ html' = format_html(groups')
    /\ rendered' = <<"format_plain", "format_html">>
    /\ stdout' = <<plain'>>
    /\ pc' = IF no_email THEN "done" ELSE "send_email"

\* main from `if items or commits:` to print(plain), with `cms` the commits
\* that fetch_recent_commits returned.
Report(cms) ==
    IF items # <<>> \/ cms # <<>>
    THEN /\ groups' = Grouped(items, cms)
         /\ plain' = format_plain(groups')
         /\ html' = format_html(groups')
         /\ rendered' = <<"format_plain", "format_html">>
         /\ stdout' = <<plain'>>
         /\ pc' = IF no_email THEN "done" ELSE "send_email"
    ELSE /\ pc' = "done"
         /\ UNCHANGED reportVars

\* fetch_recent_commits up to the lookup request: the commit search, and with
\* no commit found the return to main, which reports.
SearchCommits ==
    /\ pc = "fetch_commits"
    /\ \E list \in CommitLists :
          /\ commit_search' = list
          /\ IF list # <<>>
             THEN /\ lookups' =
                         Append(lookups, [i \in 1..Len(list) |-> list[i].node_id])
                  /\ pc' = "lookup"
                  /\ UNCHANGED <<nodes, commits, reportVars>>
             ELSE /\ commits' = FilterCommits(<<>>, after)
                  /\ Report(commits')
                  /\ UNCHANGED <<lookups, nodes>>
    \* the frame of fetch_recent_items is gone
    /\ file' = 1
    /\ cursor' = None
    /\ requests' = <<>>
    /\ pages' = <<>>
    /\ fetched' = <<>>
    /\ UNCHANGED <<inputVars, items, emails, failed, probeVars>>

SearchCommitsFails ==
    /\ pc = "fetch_commits"
    /\ failed' = "commits"
    /\ pc' = "aborted"
    /\ UNCHANGED <<inputVars, itemVars, commitVars, reportVars, emails, probeVars>>

\* The lookup answer, the zip, the filter, the return to main, which reports.
LookupReturns ==
    /\ pc = "lookup"
    /\ \E ns \in NodeLists(Len(commit_search)) :
          /\ nodes' = ns
          /\ commits' = FilterCommits(ZipRetain(commit_search, ns), after)
          /\ Report(commits')
    /\ UNCHANGED <<inputVars, itemVars, commit_search, lookups, emails, failed,
                   probeVars>>

\* A failed lookup taken as "no commits": the run goes on and reports.
LookupFailsSwallowed ==
    /\ pc = "lookup"
    /\ failed' = "lookup"
    /\ commits' = <<>>
    /\ Report(commits')
    /\ UNCHANGED <<inputVars, itemVars, commit_search, lookups, nodes, emails,
                   probeVars>>

\* raise_for_status() or msgspec.json.decode raises on the lookup answer.
LookupFails ==
    /\ pc = "lookup"
    /\ failed' = "lookup"
    /\ pc' = "aborted"
    /\ UNCHANGED <<inputVars, itemVars, commitVars, reportVars, emails, probeVars>>

SendEmail ==
    /\ pc = "send_email"
    /\ emails' = Append(emails, [subject |-> today, plain |-> plain, html |-> html])
    /\ pc' = "done"
    /\ UNCHANGED <<inputVars, itemVars, commitVars, reportVars, failed, probeVars>>

SendEmailFails ==
    /\ pc = "send_email"
    /\ failed' = "smtp"
    /\ pc' = "aborted"
    /\ UNCHANGED <<inputVars, itemVars, commitVars, reportVars, emails, probeVars>>

Next ==
    \/ FetchPage
    \/ FetchPageFails
    \/ SearchCommits
    \/ SearchCommitsFails
    \/ LookupReturns
    \/ LookupFails
    \/ SendEmail
    \/ SendEmailFails

Spec == Init /\ [][Next]_vars

----------------------------------------------------------------------------
(* The filters alone, on records whose fields vary independently *)

ProbeLogins == {"jcrist", "renovate", "alice"}
ProbeActorTypes == {"User", "Bot"}
ProbeRepos == {"jcrist/msgspec", "NixOS/nixpkgs", "a/b"}
OptTimes == {None} \cup {Some(t) : t \in TimeStamps}
ProbeComments ==
    {Comments(<<>>, 0), Comments(<<Oldest, Newest>>, 2)}
        \cup {Comments(<<t>>, 1) : t \in TimeStamps}

ProbeItems ==
    {MkItem("Issue", login, atype, repo, "https://github.com/x/y/issues/1", 1,
            <<"t">>, "OPEN", created, edited, closed, comments, reviews) :
        login \in ProbeLogins, atype \in ProbeActorTypes, repo \in ProbeRepos,
        created \in TimeStamps, edited \in OptTimes, closed \in OptTimes,
        comments \in ProbeComments, reviews \in ProbeComments}

ProbeCommits ==
    {MkCommit(<<"a">>, "https://github.com/x/y/commit/a", "n", repo, name, date,
              <<"m">>) :
        repo \in ProbeRepos, name \in ProbeLogins, date \in TimeStamps}

FilterInit ==
    /\ pc = "probe"
    /\ today \in Days
    /\ no_email = FALSE
    /\ after = Cutoff(today)
    /\ file = 1
    /\ cursor = None
    /\ requests = <<>>
    /\ pages = <<>>
    /\ fetched = <<>>
    /\ items = <<>>
    /\ commit_search = <<>>
    /\ lookups = <<>>
    /\ nodes = <<>>
    /\ commits = <<>>
    /\ groups = <<>>
    /\ rendered = <<>>
    /\ plain = <<>>
    /\ html = <<>>
    /\ stdout = <<>>
    /\ emails = <<>>
    /\ failed = "none"
    /\ probe_out = <<>>
    /\ \/ probe \in ProbeItems /\ probe_count = 0
       \/ probe \in ProbeCommits /\ probe_count \in Counts

\* The list comprehension that fetch_recent_items returns, on a one-item list.
ProbeItem ==
    /\ pc = "probe"
    /\ probe.kind = "Item"
    /\ probe_out' = FilterItems(<<probe>>, after)
    /\ pc' = "probed"
    /\ UNCHANGED <<inputVars, itemVars, commitVars, reportVars, emails, failed,
                   probe, probe_count>>

\* The zip and the list comprehension of fetch_recent_commits, on one commit
\* and its lookup node.
ProbeCommit ==
    /\ pc = "probe"
    /\ probe.kind = "Commit"
    /\ probe_out' = FilterCommits(ZipRetain(<<probe>>, <<probe_count>>), after)
    /\ pc' = "probed"
    /\ UNCHANGED <<inputVars, itemVars, commitVars, reportVars, emails, failed,
                   probe, probe_count>>

FilterNext == ProbeItem \/ ProbeCommit

FilterSpec == FilterInit /\ [][FilterNext]_vars

----------------------------------------------------------------------------
(* Claims about the filters, checked under FilterSpec *)

Max(S) == CHOOSE x \in S : \A y \in S : y <= x

\* The timestamps of an item that the recency rule reads.
ActivityTimes(item) ==
    {item.created_at}
        \cup Range(item.last_edited_at)
        \cup Range(item.closed_at)
        \cup (IF item.comments.items = <<>> THEN {}
              ELSE {Head(item.comments.items).updated_at})
        \cup (IF item.reviews.items = <<>> THEN {}
              ELSE {Head(item.reviews.items).updated_at})

ItemPassesIgnoreSets(item) ==
    /\ item.author.login \notin IGNORE_AUTHORS
    /\ item.author.type # "Bot"
    /\ item.repo.name_with_owner \notin IGNORE_REPOS

CommitPassesIgnoreSets(commit) ==
    /\ commit.info.author.name \notin IGNORE_AUTHORS
    /\ commit.repo.full_name \notin IGNORE_REPOS

ProbedItem == pc = "probed" /\ probe.kind = "Item"
ProbedCommit == pc = "probed" /\ probe.kind = "Commit"
ProbeReturned == \E i \in 1..Len(probe_out) : probe_out[i] = probe

\* C1: fetch_recent_items returns a fetched item if and only if its author
\* login is not in IGNORE_AUTHORS, its author type is not "Bot", its repository
\* is not in IGNORE_REPOS, and one of created_at, last_edited_at, closed_at,
\* the first comment's updated_at, the first review's updated_at is >= cutoff;
\* an empty comment or review list contributes no timestamp.
C1_ItemReturnedIff ==
    ProbedItem =>
        (ProbeReturned <=>
            /\ ItemPassesIgnoreSets(probe)
            /\ \E t \in ActivityTimes(probe) : t >= after)

\* An item kept by its first review alone: no comment, everything else old.
C1_Witness ==
    /\ ProbedItem
    /\ ProbeReturned
    /\ probe.comments.items = <<>>
    /\ probe.reviews.items # <<>>
    /\ probe.created_at < after
    /\ probe.last_edited_at = None
    /\ probe.closed_at = None

\* C3: a commit whose associated-PR count is zero is returned by
\* fetch_recent_commits if and only if its committer date is >= cutoff, its
\* author is not in IGNORE_AUTHORS and its repository is not in IGNORE_REPOS,
\* the two ignore sets that the item filter uses.
C3_CommitReturnedIff ==
    (ProbedCommit /\ probe_count = 0) =>
        (ProbeReturned <=>
            /\ probe.info.committer.date >= after
            /\ CommitPassesIgnoreSets(probe))

\* A recent commit without pull request that its ignored author keeps out.
C3_Witness ==
    /\ ProbedCommit
    /\ probe_count = 0
    /\ probe.info.committer.date >= after
    /\ probe.info.author.name \in IGNORE_AUTHORS
    /\ probe.repo.full_name \notin IGNORE_REPOS
    /\ ~ProbeReturned

ProbeLatest ==
    IF probe.kind = "Item" THEN Max(ActivityTimes(probe))
    ELSE probe.info.committer.date

ProbePassesIgnoreSets ==
    IF probe.kind = "Item" THEN ItemPassesIgnoreSets(probe)
    ELSE CommitPassesIgnoreSets(probe) /\ probe_count = 0

\* C4: on date D the cutoff is 14:00:00 UTC of D - 1, and the comparison is
\* inclusive: an item or commit that passes the other checks and whose latest
\* timestamp is the cutoff itself is returned, and one whose latest timestamp
\* is one second before the cutoff is not.
C4_CutoffInclusive ==
    /\ after = Utc(today - 1, 14, 0, 0)
    /\ pc = "probed" =>
          /\ (ProbeLatest = after /\ ProbePassesIgnoreSets) => ProbeReturned
          /\ ProbeLatest = after - 1 => ~ProbeReturned

\* On day 2, an item whose latest timestamp is the cutoff of day 2 is returned.
C4_Witness ==
    /\ ProbedItem
    /\ today = 2
    /\ ProbeLatest = after
    /\ probe.created_at = after - 1
    /\ ProbeReturned

----------------------------------------------------------------------------
(* Claims about the run, checked under Spec *)

HasNext(i) == pages[i].page_info.has_next_page

\* How many of the first n pages ended their query.
RECURSIVE LastPages(_)
LastPages(n) ==
    IF n = 0 THEN 0 ELSE LastPages(n - 1) + (IF HasNext(n) THEN 0 ELSE 1)

PagingLive == pc \in {"fetch_items", "fetch_commits"} \/ failed = "search"

\* C5: for each of the two queries, issues first, the first request carries no
\* cursor, every later request carries the end_cursor of the page before it,
\* the query ends exactly at its first page without next page, and the list
\* collected is the concatenation of the pages' items in fetch order.
C5_Pagination ==
    PagingLive =>
        /\ Len(pages) = Len(requests) - (IF failed = "search" THEN 1 ELSE 0)
        /\ \A i \in 1..Len(requests) :
              /\ LastPages(i - 1) < Len(FILES)
              /\ requests[i].file = FILES[LastPages(i - 1) + 1]
              /\ requests[i].after =
                     IF i = 1 \/ ~HasNext(i - 1) THEN None
                     ELSE pages[i - 1].page_info.end_cursor
        /\ LastPages(Len(pages)) <= Len(FILES)
        /\ (pc = "fetch_commits") <=> (LastPages(Len(pages)) = Len(FILES))
        /\ pc = "fetch_commits" => ~HasNext(Len(pages))
        /\ fetched = Concat([i \in 1..Len(pages) |-> pages[i].items])

\* Three pages of issues fetched with no cursor, then c1, then c2, and one
\* page of discussions fetched with no cursor again.
C5_Witness ==
    /\ pc = "fetch_commits"
    /\ Len(requests) = 4
    /\ requests[2].after = Some("c1")
    /\ requests[3].after = Some("c2")
    /\ requests[3].file = "issues.graphql"
    /\ requests[4].file = "discussions.graphql"
    /\ requests[4].after = None
    /\ Len(fetched) >= 6

\* C6: when a search page, the commit search or the lookup fails, the run is
\* over at once: nothing more can happen, nothing was rendered or printed and
\* no email was sent.
C6_AllOrNothing ==
    failed \in {"search", "commits", "lookup"} =>
        /\ pc = "aborted"
        /\ ~ENABLED Next
        /\ rendered = <<>>
        /\ stdout = <<>>
        /\ emails = <<>>

\* The lookup fails after the item searches had returned interesting items.
C6_Witness ==
    /\ failed = "lookup"
    /\ items # <<>>
    /\ commit_search # <<>>

CommitsReturned == pc \in {"send_email", "done"} \/ failed = "smtp"

\* C7: with no item and no commit left the run ends without rendering,
\* printing or mailing; send_email is called only with something left, without
\* --no-email, and after the plain digest was printed.
C7_EmptyRunSilent ==
    /\ (CommitsReturned /\ items = <<>> /\ commits = <<>>) =>
           /\ pc = "done"
           /\ failed = "none"
           /\ rendered = <<>>
           /\ stdout = <<>>
           /\ emails = <<>>
    /\ (pc = "send_email" \/ emails # <<>> \/ failed = "smtp") =>
           /\ items # <<>> \/ commits # <<>>
           /\ ~no_email
           /\ plain # <<>>
           /\ stdout = <<plain>>
    /\ Len(emails) <= 1

\* Email wanted, commits found, and every item and commit filtered out.
C7_Witness ==
    /\ pc = "done"
    /\ ~no_email
    /\ items = <<>>
    /\ commits = <<>>
    /\ commit_search # <<>>
    /\ nodes # <<>>

Url(x) == IF IsItem(x) THEN x.url ELSE x.html_url

RepoOf(x) == IF IsItem(x) THEN x.repo.name_with_owner ELSE x.repo.full_name

\* s < t for two str: at the first position where they differ s has the
\* smaller code point, or s ends there and t does not.
CodePointLess(s, t) ==
    LET a == Ord(s)
        b == Ord(t)
    IN \E k \in 1..(Len(a) + 1) :
          /\ k <= Len(b)
          /\ \A j \in 1..(k - 1) : a[j] = b[j]
          /\ k = Len(a) + 1 \/ a[k] < b[k]

Headers(out) ==
    LET hs == SelectSeq(out, LAMBDA l : l.kind = "header")
    IN [i \in 1..Len(hs) |-> hs[i].repo]

EntryUrls(out) ==
    LET es == SelectSeq(out, LAMBDA l : l.kind \in {"item", "commit"})
    IN [i \in 1..Len(es) |-> es[i].url]

GroupOf(repo) == groups[CHOOSE i \in 1..Len(groups) : groups[i].repo = repo]

GroupUrls(repo) ==
    [i \in 1..Len(GroupOf(repo).items) |-> Url(GroupOf(repo).items[i])]

SectionsSorted(out) ==
    LET hs == Headers(out)
    IN /\ Len(hs) = Len(groups)
       /\ \A i \in 1..Len(hs) : \E g \in 1..Len(groups) : groups[g].repo = hs[i]
       /\ \A i \in 1..(Len(hs) - 1) : CodePointLess(hs[i], hs[i + 1])
       /\ EntryUrls(out) = Concat([i \in 1..Len(hs) |-> GroupUrls(hs[i])])

\* C8: every returned item and commit is in exactly one group, that of its
\* repository; a group holds its items in the order of the item list, then its
\* commits in the order of the commit list; format_plain and format_html emit
\* the groups in the code point order of the repository names.
C8_GroupedAndSorted ==
    rendered # <<>> =>
        /\ \A g, h \in 1..Len(groups) : groups[g].repo = groups[h].repo => g = h
        /\ {groups[g].repo : g \in 1..Len(groups)} =
               {RepoOf(items[i]) : i \in 1..Len(items)}
                   \cup {RepoOf(commits[i]) : i \in 1..Len(commits)}
        /\ \A g \in 1..Len(groups) :
              groups[g].items =
                  SelectSeq(items, LAMBDA x : RepoOf(x) = groups[g].repo)
                      \o SelectSeq(commits, LAMBDA x : RepoOf(x) = groups[g].repo)
        /\ SectionsSorted(plain)
        /\ SectionsSorted(html)

\* Three groups first seen in an order that is not the sorted one, one of them
\* holding two items followed by a commit.
C8_Witness ==
    /\ rendered # <<>>
    /\ Len(groups) >= 3
    /\ Keys(groups) # Headers(plain)
    /\ \E g \in 1..Len(groups) :
          /\ Len(groups[g].items) >= 3
          /\ IsItem(groups[g].items[1])
          /\ IsItem(groups[g].items[2])
          /\ groups[g].items[1] # groups[g].items[2]
          /\ ~IsItem(groups[g].items[3])

Paired == 1..Min(Len(commit_search), Len(nodes))

Reported(commit) ==
    \/ \E j \in 1..Len(commits) : commits[j] = commit
    \/ \E g \in 1..Len(groups) :
          \E j \in 1..Len(groups[g].items) : groups[g].items[j] = commit
    \/ \E j \in 1..Len(plain) : plain[j].url = commit.html_url
    \/ \E j \in 1..Len(html) : html[j].url = commit.html_url

\* C2: a commit whose lookup node, the one at its own list position, counts
\* one or more pull requests is never returned by fetch_recent_commits and
\* never in a group or a rendered line.
C2_NoCommitWithPullRequest ==
    \A i \in Paired : nodes[i] # 0 => ~Reported(commit_search[i])

\* A recent commit of an author and repository that are not ignored is left
\* out for its two pull requests, while another commit is reported.
C2_Witness ==
    /\ pc = "done"
    /\ commits # <<>>
    /\ \E i \in Paired :
          /\ nodes[i] = 2
          /\ commit_search[i].info.committer.date >= after
          /\ CommitPassesIgnoreSets(commit_search[i])

Retained(i) ==
    /\ i <= Len(nodes)
    /\ nodes[i] = 0
    /\ commit_search[i].info.committer.date >= after
    /\ CommitPassesIgnoreSets(commit_search[i])

\* C10: commits and lookup nodes are paired by list index; a commit beyond the
\* last node is dropped without an error, and no lookup is sent when the
\* commit search found nothing.
C10_PairedByIndex ==
    /\ commit_search = <<>> => (lookups = <<>> /\ nodes = <<>>)
    /\ commit_search # <<>> =>
           lookups = <<[i \in 1..Len(commit_search) |-> commit_search[i].node_id]>>
    /\ nodes # <<>> => failed \in {"none", "smtp"}
    /\ CommitsReturned =>
           /\ \A i \in 1..Len(commit_search) :
                 Retained(i) <=> \E j \in 1..Len(commits) : commits[j] = commit_search[i]
           /\ Len(commits) = Cardinality({i \in 1..Len(commit_search) : Retained(i)})

\* The lookup answers with fewer nodes than commits: the run ends normally, a
\* paired commit is reported and a recent unpaired one is not.
C10_Witness ==
    /\ pc = "done"
    /\ failed = "none"
    /\ nodes # <<>>
    /\ Len(nodes) < Len(commit_search)
    /\ commits # <<>>
    /\ LET last == commit_search[Len(commit_search)]
       IN /\ last.info.committer.date >= after
          /\ CommitPassesIgnoreSets(last)
          /\ ~Reported(last)

AllReported == Concat([g \in 1..Len(groups) |-> groups[g].items])

\* C9: no item is reported twice: whatever the search pages and the commit
\* search returned, the elements of the final groups have pairwise different
\* urls, and no commit that has a pull request is among them.
C9_NoItemReportedTwice ==
    pc = "done" =>
        /\ \A i, j \in 1..Len(AllReported) :
              Url(AllReported[i]) = Url(AllReported[j]) => i = j
        /\ \A i \in Paired : nodes[i] # 0 => ~Reported(commit_search[i])

====
